---------------------------- MODULE Spec2Model ----------------------------
(***************************************************************************)
(* zxtape: a .TAP container reader (Block::from_bytes, Header::from_bytes)  *)
(* and the bit -> square-wave pulse encoder (convert_bits_to_pulses), as    *)
(* implemented in src/src/main.rs.                                          *)
(*                                                                          *)
(* Spec     models main(): the block-reading loop over a byte container,    *)
(*          followed by the loop that encodes and plays block.data.         *)
(* SpecEnc  applies convert_bits_to_pulses to payloads and sample rates     *)
(*          drawn from bounded sets.                                        *)
(*                                                                          *)
(* Reader positions are 0-based byte offsets; input[p + 1] is the byte at   *)
(* offset p.  Option<T> is a sequence of length <= 1.                       *)
(***************************************************************************)
EXTENDS Integers, Sequences, FiniteSets, TLC

VARIABLES
    input,            \* the bytes of the file behind the BufReader
    overflow_checks,  \* build profile: TRUE = arithmetic overflow panics (debug),
                      \*                FALSE = it wraps (release)
    pos,              \* reader offset at the head of the reading loop
    blocks,           \* main's Vec<Block>
    pc,               \* "reading" | "playing" | "done" | "failed" | "panicked"
                      \* | "encoding" | "encoded" (SpecEnc)
    err,              \* the io::Error kind main returns, "none" otherwise
    next_block,       \* position of the `for block in blocks` iterator
    played,           \* the sample vectors handed to play_audio_data, in order
    enc_data,         \* SpecEnc: the `data` argument of convert_bits_to_pulses
    enc_rate,         \* SpecEnc: the `sample_rate` argument
    enc_out           \* SpecEnc: the returned Vec<f32>

vars == <<input, overflow_checks, pos, blocks, pc, err, next_block, played,
          enc_data, enc_rate, enc_out>>

---------------------------------------------------------------------------
(* Bounds of the model *)

\* number of chunks concatenated into one container
MaxBlocks == 2

\* number of bytes in a payload given to the encoder in SpecEnc
MaxEncLen == 2

---------------------------------------------------------------------------
(* Option and Result *)

None == <<>>

Some(x) == <<x>>

Ok(p, v) == [status |-> "Ok", pos |-> p, value |-> v]

Fail(kind) == [status |-> kind, pos |-> 0, value |-> None]

---------------------------------------------------------------------------
(* The reader: byteorder::ReadBytesExt and Read::read_exact on BufReader.   *)
(* Each read needs its bytes to be present; callers test Remaining first    *)
(* and return UnexpectedEof otherwise.                                      *)

Remaining(inp, p) == Len(inp) - p

read_u8(inp, p) == inp[p + 1]

read_u16_le(inp, p) == inp[p + 1] + 256 * inp[p + 2]

read_exact(inp, p, n) == SubSeq(inp, p + 1, p + n)

\* u16 arithmetic of the release build
U16Modulus == 65536

---------------------------------------------------------------------------
(* Tags *)

FlagEnum_from_u8(value) ==
    IF value = 0 THEN Some("Header")
    ELSE IF value = 255 THEN Some("Data")
    ELSE None

\* a decoder that also takes 0x04 for a header kind
HeaderTypeEnum_from_u8_Accepts4(value) ==
    IF value = 0 THEN Some("Program")
    ELSE IF value = 1 THEN Some("NumArray")
    ELSE IF value = 2 THEN Some("CharArray")
    ELSE IF value = 3 \/ value = 4 THEN Some("Bytes")
    ELSE None

HeaderTypeEnum_from_u8(value) ==
    IF value = 0 THEN Some("Program")
    ELSE IF value = 1 THEN Some("NumArray")
    ELSE IF value = 2 THEN Some("CharArray")
    ELSE IF value = 3 THEN Some("Bytes")
    ELSE None

---------------------------------------------------------------------------
(* Header parameters: four bytes each *)

\* the two fields read big-endian
ProgramParams_from_bytes_BigEndian(inp, p) ==
    IF Remaining(inp, p) < 2 THEN Fail("UnexpectedEof")
    ELSE IF Remaining(inp, p + 2) < 2 THEN Fail("UnexpectedEof")
    ELSE Ok(p + 4, [tag |-> "Program",
                    autostart_line |-> 256 * inp[p + 1] + inp[p + 2],
                    len_program |-> 256 * inp[p + 3] + inp[p + 4]])

ProgramParams_from_bytes(inp, p) ==
    IF Remaining(inp, p) < 2 THEN Fail("UnexpectedEof")
    ELSE IF Remaining(inp, p + 2) < 2 THEN Fail("UnexpectedEof")
    ELSE Ok(p + 4, [tag |-> "Program",
                    autostart_line |-> read_u16_le(inp, p),
                    len_program |-> read_u16_le(inp, p + 2)])

BytesParams_from_bytes(inp, p) ==
    IF Remaining(inp, p) < 2 THEN Fail("UnexpectedEof")
    ELSE IF Remaining(inp, p + 2) < 1 THEN Fail("UnexpectedEof")
    ELSE IF Remaining(inp, p + 3) < 1 THEN Fail("UnexpectedEof")
    ELSE Ok(p + 4, [tag |-> "Bytes",
                    start_address |-> read_u16_le(inp, p),
                    reserved |-> <<read_u8(inp, p + 2), read_u8(inp, p + 3)>>])

ArrayParams_from_bytes(inp, p) ==
    IF Remaining(inp, p) < 4 THEN Fail("UnexpectedEof")
    ELSE LET array_params == [tag |-> "Array",
                              reserved |-> read_u8(inp, p),
                              var_name |-> read_u8(inp, p + 1),
                              reserved1 |-> <<read_u8(inp, p + 2), read_u8(inp, p + 3)>>]
         IN  IF ~(\A i \in 1..2 : array_params.reserved1[i] = 0)
             THEN Fail("InvalidData")
             ELSE Ok(p + 4, array_params)

---------------------------------------------------------------------------
(* Header::from_bytes: kind, filename[10], len_data, params[4], checksum *)

FilenameLen == 10

Header_params(header_type, inp, p) ==
    IF header_type = "Program" THEN ProgramParams_from_bytes(inp, p)
    ELSE IF header_type \in {"NumArray", "CharArray"} THEN ArrayParams_from_bytes(inp, p)
    ELSE BytesParams_from_bytes(inp, p)

Header_from_bytes(inp, p) ==
    IF Remaining(inp, p) < 1 THEN Fail("UnexpectedEof")
    ELSE LET header_type == HeaderTypeEnum_from_u8(read_u8(inp, p)) IN
    IF header_type = None THEN Fail("InvalidData")
    ELSE IF Remaining(inp, p + 1) < FilenameLen THEN Fail("UnexpectedEof")
    ELSE IF Remaining(inp, p + 1 + FilenameLen) < 2 THEN Fail("UnexpectedEof")
    ELSE LET filename == read_exact(inp, p + 1, FilenameLen)
             len_data == read_u16_le(inp, p + 1 + FilenameLen)
             params   == Header_params(header_type[1], inp, p + 3 + FilenameLen)
         IN
    IF params.status # "Ok" THEN Fail(params.status)
    ELSE IF Remaining(inp, params.pos) < 1 THEN Fail("UnexpectedEof")
    ELSE Ok(params.pos + 1,
            [header_type |-> header_type[1],
             filename    |-> filename,
             len_data    |-> len_data,
             params      |-> Some(params.value),
             checksum    |-> read_u8(inp, params.pos)])

---------------------------------------------------------------------------
(* Block::from_bytes *)

\* 0x13, the length of a header block
HeaderBlockLen == 19

\* the "+ 4" added to header.len_data
DataExtra == 4

\* a header step that puts the flag byte back when it decodes no header
Block_header_UnreadsFlag(len_block, flag, inp, p) ==
    IF len_block = HeaderBlockLen /\ flag = "Header"
    THEN LET h == Header_from_bytes(inp, p)
         IN  IF h.status = "Ok" THEN Ok(h.pos, Some(h.value)) ELSE Fail(h.status)
    ELSE Ok(p - 1, None)

\* `if len_block == 0x13 && flag == FlagEnum::Header { header = ... }`
Block_header(len_block, flag, inp, p) ==
    IF len_block = HeaderBlockLen /\ flag = "Header"
    THEN LET h == Header_from_bytes(inp, p)
         IN  IF h.status = "Ok" THEN Ok(h.pos, Some(h.value)) ELSE Fail(h.status)
    ELSE Ok(p, None)

\* `if len_block == 0x13 { vec![0; (header.unwrap().len_data + 4)]; read_exact }`
Block_data(len_block, header, checks, inp, p) ==
    IF len_block # HeaderBlockLen THEN Ok(p, None)
    ELSE IF header = None THEN Fail("Panic")
    ELSE LET sum == header[1].len_data + DataExtra IN
         IF sum >= U16Modulus /\ checks THEN Fail("Panic")
         ELSE LET n == sum % U16Modulus IN
              IF Remaining(inp, p) < n THEN Fail("UnexpectedEof")
              ELSE Ok(p + n, Some(read_exact(inp, p, n)))

\* `match flag { Header => None, Data => vec![0; (len_block - 1)]; read_exact }`
Block_headerless_data(len_block, flag, checks, inp, p) ==
    IF flag = "Header" THEN Ok(p, None)
    ELSE IF len_block = 0 /\ checks THEN Fail("Panic")
    ELSE LET n == (len_block - 1) % U16Modulus IN
         IF Remaining(inp, p) < n THEN Fail("UnexpectedEof")
         ELSE Ok(p + n, Some(read_exact(inp, p, n)))

Block_from_bytes(inp, p, checks) ==
    IF Remaining(inp, p) < 2 THEN Fail("UnexpectedEof")
    ELSE LET len_block == read_u16_le(inp, p) IN
    IF Remaining(inp, p + 2) < 1 THEN Fail("UnexpectedEof")
    ELSE LET flag == FlagEnum_from_u8(read_u8(inp, p + 2)) IN
    IF flag = None THEN Fail("InvalidData")
    ELSE LET header == Block_header(len_block, flag[1], inp, p + 3) IN
    IF header.status # "Ok" THEN Fail(header.status)
    ELSE LET data == Block_data(len_block, header.value, checks, inp, header.pos) IN
    IF data.status # "Ok" THEN Fail(data.status)
    ELSE LET headerless_data ==
                 Block_headerless_data(len_block, flag[1], checks, inp, data.pos) IN
    IF headerless_data.status # "Ok" THEN Fail(headerless_data.status)
    ELSE Ok(headerless_data.pos,
            [len_block       |-> len_block,
             flag            |-> flag[1],
             header          |-> header.value,
             data            |-> data.value,
             headerless_data |-> headerless_data.value])

---------------------------------------------------------------------------
(* convert_bits_to_pulses                                                   *)
(*                                                                          *)
(* The f32 product (duration / 1_000_000.0) * sample_rate, cast `as usize`, *)
(* is the integer quotient duration * sample_rate \div 1_000_000 for every  *)
(* sample rate of SampleRates (f32 rounding moves the product across an     *)
(* integer only from 174269 Hz upwards).  A sample is 1.0 when the sine is  *)
(* positive, i.e. when the phase s * freq / sample_rate, taken modulo one   *)
(* cycle, lies strictly inside the first half cycle; SampleRates holds no   *)
(* rate at which a sample falls exactly on a zero crossing, where the sign  *)
(* of the f32 sine is decided by rounding.                                  *)

freq_zero == 1500

freq_one == 3000

duration_zero == 855

duration_one == 1710

MicrosPerSecond == 1000000

\* the bits of a byte taken from bit 7 down to bit 0
BitOf_MsbFirst(byte, i) == (byte \div (2 ^ (7 - i))) % 2

\* `(byte >> i) & 1`
BitOf(byte, i) == (byte \div (2 ^ i)) % 2

\* the sample count rounded to nearest instead of truncated
sample_count_Rounded(duration, sample_rate) ==
    (2 * duration * sample_rate + MicrosPerSecond) \div (2 * MicrosPerSecond)

\* `((duration / 1_000_000.0) * sample_rate as f32) as usize`
sample_count(duration, sample_rate) ==
    (duration * sample_rate) \div MicrosPerSecond

\* `if (s * freq / sample_rate * 2 PI).sin() > 0.0 { 1.0 } else { -1.0 }`
sample_value(s, freq, sample_rate) ==
    LET phase == (s * freq) % sample_rate
    IN  IF 0 < phase /\ 2 * phase < sample_rate THEN 1 ELSE -1

\* the square wave of `count` samples pushed for one bit
square_wave(freq, count, sample_rate) ==
    [k \in 1..count |-> sample_value(k - 1, freq, sample_rate)]

bit_pulse(bit, sample_rate) ==
    IF bit = 0
    THEN square_wave(freq_zero, sample_count(duration_zero, sample_rate), sample_rate)
    ELSE square_wave(freq_one, sample_count(duration_one, sample_rate), sample_rate)

\* `for i in 0..8`: the pulses of bits i..7 of one byte
RECURSIVE byte_pulses(_, _, _)
byte_pulses(byte, i, sample_rate) ==
    IF i >= 8 THEN <<>>
    ELSE bit_pulse(BitOf(byte, i), sample_rate) \o byte_pulses(byte, i + 1, sample_rate)

\* `for &byte in data`
RECURSIVE convert_bits_to_pulses(_, _)
convert_bits_to_pulses(data, sample_rate) ==
    IF data = <<>> THEN <<>>
    ELSE byte_pulses(Head(data), 0, sample_rate)
         \o convert_bits_to_pulses(Tail(data), sample_rate)

---------------------------------------------------------------------------
(* The containers main() is run on: every prefix of a concatenation of at   *)
(* most MaxBlocks chunks.  The chunks cover each branch of the parser.      *)

\* "TEST" followed by six zero bytes
TestFilename == <<84, 69, 83, 84, 0, 0, 0, 0, 0, 0>>

HeaderChunk(kind, len_lo, len_hi, params) ==
    <<19, 0, 0, kind>> \o TestFilename \o <<len_lo, len_hi>> \o params \o <<170>>

Chunks ==
    { HeaderChunk(0, 5, 0, <<0, 10, 0, 0>>),       \* Program, len_data 5
      HeaderChunk(1, 0, 0, <<0, 65, 0, 128>>),     \* NumArray, reserved {00, 80}
      HeaderChunk(2, 0, 0, <<0, 65, 0, 0>>),       \* CharArray, reserved {00, 00}
      HeaderChunk(3, 1, 0, <<0, 128, 1, 2>>),      \* Bytes, len_data 1
      HeaderChunk(4, 0, 0, <<0, 0, 0, 0>>),        \* header kind 0x04
      HeaderChunk(0, 255, 255, <<0, 0, 0, 0>>),    \* len_data 0xFFFF
      <<7, 0, 255, 1, 2, 3, 4, 5, 99>>,            \* Data, 6 payload bytes
      <<2, 0, 255, 7>>,                            \* Data, 1 payload byte
      <<1, 0, 255>>,                               \* Data, empty payload
      <<0, 0, 255>>,                               \* Data, declared length 0
      <<19, 0, 255>> \o TestFilename \o <<1, 2, 3, 4, 5, 6, 7, 8>>,  \* Data, length 19
      <<3, 0, 0, 1, 2>>,                           \* Header flag, length 3
      <<2, 0, 1, 9>> }                             \* flag 0x01

RECURSIVE Concats(_)
Concats(n) ==
    IF n = 0 THEN {<<>>}
    ELSE LET shorter == Concats(n - 1)
         IN  shorter \cup {c \o b : c \in shorter, b \in Chunks}

Prefixes(s) == {SubSeq(s, 1, k) : k \in 0..Len(s)}

Inputs == UNION {Prefixes(s) : s \in Concats(MaxBlocks)}

---------------------------------------------------------------------------
(* main() *)

\* the sample rate main passes to convert_bits_to_pulses
SAMPLE_RATE == 44100

Init ==
    /\ input \in Inputs
    /\ overflow_checks \in BOOLEAN
    /\ pos = 0
    /\ blocks = <<>>
    /\ pc = "reading"
    /\ err = "none"
    /\ next_block = 1
    /\ played = <<>>
    /\ enc_data = <<>>
    /\ enc_rate = SAMPLE_RATE
    /\ enc_out = <<>>

\* a reading loop that logs a parse error and goes on to play what it has
ReadBlock_ContinuesAfterError ==
    /\ pc = "reading"
    /\ pos < Len(input)
    /\ LET r == Block_from_bytes(input, pos, overflow_checks) IN
       IF r.status = "Ok"
       THEN /\ blocks' = Append(blocks, r.value)
            /\ pos' = r.pos
            /\ UNCHANGED <<pc, err>>
       ELSE IF r.status = "Panic"
       THEN /\ pc' = "panicked"
            /\ UNCHANGED <<blocks, pos, err>>
       ELSE /\ pc' = "playing"
            /\ err' = r.status
            /\ UNCHANGED <<blocks, pos>>
    /\ UNCHANGED <<input, overflow_checks, next_block, played, enc_data, enc_rate, enc_out>>

\* `while !reader.fill_buf()?.is_empty() { Block::from_bytes(&mut reader)?; push }`
ReadBlock ==
    /\ pc = "reading"
    /\ pos < Len(input)
    /\ LET r == Block_from_bytes(input, pos, overflow_checks) IN
       IF r.status = "Ok"
       THEN /\ blocks' = Append(blocks, r.value)
            /\ pos' = r.pos
            /\ UNCHANGED <<pc, err>>
       ELSE IF r.status = "Panic"
       THEN /\ pc' = "panicked"
            /\ UNCHANGED <<blocks, pos, err>>
       ELSE /\ pc' = "failed"
            /\ err' = r.status
            /\ UNCHANGED <<blocks, pos>>
    /\ UNCHANGED <<input, overflow_checks, next_block, played, enc_data, enc_rate, enc_out>>

\* fill_buf() returns an empty buffer: the reading loop ends
EndOfInput ==
    /\ pc = "reading"
    /\ pos = Len(input)
    /\ pc' = "playing"
    /\ UNCHANGED <<input, overflow_checks, pos, blocks, err, next_block, played,
                   enc_data, enc_rate, enc_out>>

\* one iteration of `for block in blocks { if let Some(data) = block.data {...} }`
PlayBlock ==
    /\ pc = "playing"
    /\ next_block <= Len(blocks)
    /\ LET block == blocks[next_block] IN
       played' = IF block.data # None
                 THEN Append(played, convert_bits_to_pulses(block.data[1], SAMPLE_RATE))
                 ELSE played
    /\ next_block' = next_block + 1
    /\ UNCHANGED <<input, overflow_checks, pos, blocks, pc, err, enc_data, enc_rate, enc_out>>

\* the iterator is exhausted: main returns Ok(())
Finish ==
    /\ pc = "playing"
    /\ next_block > Len(blocks)
    /\ pc' = "done"
    /\ UNCHANGED <<input, overflow_checks, pos, blocks, err, next_block, played,
                   enc_data, enc_rate, enc_out>>

Next == ReadBlock \/ EndOfInput \/ PlayBlock \/ Finish

Spec == Init /\ [][Next]_vars

---------------------------------------------------------------------------
(* convert_bits_to_pulses on its own *)

EncBytes == {0, 1, 2, 128, 170, 255}

RECURSIVE SeqsUpTo(_, _)
SeqsUpTo(S, n) ==
    IF n = 0 THEN {<<>>}
    ELSE LET shorter == SeqsUpTo(S, n - 1)
         IN  shorter \cup {Append(s, b) : s \in shorter, b \in S}

SampleRates == {1, 1170, 11025, 22050, 22222, 44100, 88200}

InitEnc ==
    /\ enc_data \in SeqsUpTo(EncBytes, MaxEncLen)
    /\ enc_rate \in SampleRates
    /\ enc_out = <<>>
    /\ pc = "encoding"
    /\ input = <<>>
    /\ overflow_checks = FALSE
    /\ pos = 0
    /\ blocks = <<>>
    /\ err = "none"
    /\ next_block = 1
    /\ played = <<>>

Encode ==
    /\ pc = "encoding"
    /\ enc_out' = convert_bits_to_pulses(enc_data, enc_rate)
    /\ pc' = "encoded"
    /\ UNCHANGED <<input, overflow_checks, pos, blocks, err, next_block, played,
                   enc_data, enc_rate>>

NextEnc == Encode

SpecEnc == InitEnc /\ [][NextEnc]_vars

---------------------------------------------------------------------------
(* Properties of the block parser, checked under Spec *)

LastBlock(bs) == bs[Len(bs)]

\* ReadBlock pushed a block in this step
BlockParsed == pc = "reading" /\ Len(blocks') = Len(blocks) + 1

\* the declared_length and the flag byte of the block that starts at offset p
DeclaredLengthAt(p) == read_u16_le(input, p)

FlagByteAt(p) == read_u8(input, p + 2)

\* C1: whenever Block::from_bytes returns a block, in every branch, the reader
\* has advanced by exactly the 2-byte length prefix plus declared_length bytes,
\* so the next call starts at the next block's length prefix.
C1_ConsumesDeclaredLength ==
    [][BlockParsed => pos' = pos + 2 + LastBlock(blocks').len_block]_vars

\* the block at the reader's offset has the Data flag and all the bytes it
\* declares (its length prefix, its flag byte and declared_length body bytes)
DataBlockAhead ==
    /\ pc = "reading"
    /\ Remaining(input, pos) >= 3
    /\ FlagByteAt(pos) = 255
    /\ Remaining(input, pos) >= 2 + DeclaredLengthAt(pos)

\* C2: for every block whose flag byte is Data (0xFF), whatever its
\* declared_length (19 and 0 included) and provided enough input remains,
\* Block::from_bytes returns a block whose raw payload is the
\* declared_length - 1 bytes that follow the flag byte.
C2_DataPayload ==
    [][DataBlockAhead =>
          /\ BlockParsed
          /\ LastBlock(blocks').headerless_data # None
          /\ Len(LastBlock(blocks').headerless_data[1]) = DeclaredLengthAt(pos) - 1
          /\ LastBlock(blocks').headerless_data[1]
                 = SubSeq(input, pos + 4, pos + 2 + DeclaredLengthAt(pos))]_vars

\* C3: every parsed block with declared_length 19 and the Header flag stores a
\* companion payload of exactly header.len_data bytes.
C3_CompanionPayloadLength ==
    \A i \in DOMAIN blocks :
        blocks[i].header # None =>
            /\ blocks[i].data # None
            /\ Len(blocks[i].data[1]) = blocks[i].header[1].len_data

\* the input ends inside the block that starts at offset p: inside its length
\* prefix, or before the declared_length bytes of its body are complete
RunsOutInsideBlock(p) ==
    /\ p < Len(input)
    /\ \/ Remaining(input, p) < 2
       \/ Remaining(input, p) < 2 + DeclaredLengthAt(p)

RECURSIVE DeclaredExtent(_)
DeclaredExtent(bs) ==
    IF bs = <<>> THEN 0 ELSE 2 + Head(bs).len_block + DeclaredExtent(Tail(bs))

\* C4: the reading loop ends normally only with the input exhausted at a block
\* boundary (every block read was wholly present), an empty container gives
\* zero blocks and a normal end, and when the input runs out inside a block
\* the run ends with the UnexpectedEof error (unless an invalid tag byte of
\* that block was reported first).
C4_EndOrUnexpectedEof ==
    /\ pc \in {"playing", "done"} =>
          /\ pos = Len(input)
          /\ err = "none"
          /\ DeclaredExtent(blocks) <= Len(input)
    /\ (input = <<>> /\ pc # "reading") =>
          /\ pc \in {"playing", "done"}
          /\ blocks = <<>>
    /\ (pc # "reading" /\ RunsOutInsideBlock(pos)
           /\ ~(pc = "failed" /\ err = "InvalidData")) =>
          /\ pc = "failed"
          /\ err = "UnexpectedEof"

\* the block at offset p has a flag byte other than 0x00 and 0xFF
BadFlagAt(p) ==
    /\ Remaining(input, p) >= 3
    /\ FlagByteAt(p) \notin {0, 255}

\* the block at offset p is a Header block (length 19, flag 0x00) whose
\* header-kind byte is not 0x00..0x03
BadKindAt(p) ==
    /\ Remaining(input, p) >= 4
    /\ DeclaredLengthAt(p) = 19
    /\ FlagByteAt(p) = 0
    /\ read_u8(input, p + 3) \notin 0..3

\* C5: no byte other than 0x00 and 0xFF maps to a flag and no byte other than
\* 0x00..0x03 to a header kind; a block with an unrecognised flag byte, or a
\* Header block with an unrecognised header-kind byte, makes the parse fail
\* with InvalidData and yields no Block value.
C5_UnrecognisedTagFails ==
    [][/\ \A v \in 0..255 :
              /\ v \notin {0, 255} => FlagEnum_from_u8(v) = None
              /\ v \notin 0..3 => HeaderTypeEnum_from_u8(v) = None
       /\ (pc = "reading" /\ (BadFlagAt(pos) \/ BadKindAt(pos))) =>
              /\ pc' = "failed"
              /\ err' = "InvalidData"
              /\ blocks' = blocks]_vars

\* a run that failed with InvalidData on the header-kind byte 0x04 of its
\* second block
C5_Witness ==
    /\ pc = "failed"
    /\ err = "InvalidData"
    /\ BadKindAt(pos)
    /\ Len(blocks) = 1

---------------------------------------------------------------------------
(* Properties of the pulse encoder, checked under SpecEnc *)

\* the pulse of a bit of the given frequency that lasts duration microseconds
\* at the rate of the run, its length truncated to whole samples
Pulse(freq, duration) ==
    square_wave(freq, (duration * enc_rate) \div 1000000, enc_rate)

RECURSIVE Repeat(_, _)
Repeat(s, n) == IF n = 0 THEN <<>> ELSE s \o Repeat(s, n - 1)

EncodedOneAt44100 == pc = "encoded" /\ enc_data = <<1>> /\ enc_rate = 44100

\* C6 (as stated): the payload 0b00000001 at 44100 Hz gives 7 zero-bit pulses
\* (1500 Hz, 855 us) followed by 1 one-bit pulse (3000 Hz, 1710 us).
C6_SevenZerosThenOne ==
    EncodedOneAt44100 =>
        enc_out = Repeat(Pulse(1500, 855), 7) \o Pulse(3000, 1710)

\* C6 (amended): the payload 0b00000001 at 44100 Hz gives 8 bit-pulses, bits
\* taken LSB-first: first the one-bit pulse of bit 0 (3000 Hz, 1710 us), then
\* the 7 zero-bit pulses of bits 1..7 (1500 Hz, 855 us each).
C6_OneThenSevenZeros ==
    EncodedOneAt44100 =>
        enc_out = Pulse(3000, 1710) \o Repeat(Pulse(1500, 855), 7)

\* 0b00000001 has been encoded at 44100 Hz into 75 + 7 * 37 samples
C6_Witness ==
    /\ EncodedOneAt44100
    /\ Len(enc_out) = 334

\* the bits of a payload in the order of the claim: byte by byte, bit 0 first
RECURSIVE PayloadBits(_)
PayloadBits(data) ==
    IF data = <<>> THEN <<>>
    ELSE [i \in 1..8 |-> (Head(data) \div (2 ^ (i - 1))) % 2] \o PayloadBits(Tail(data))

TruncatedCount(bit) ==
    IF bit = 0 THEN (855 * enc_rate) \div 1000000 ELSE (1710 * enc_rate) \div 1000000

\* round(duration_us / 1_000_000 * sample_rate), halves rounded up
RoundedCount(bit) ==
    IF bit = 0 THEN (2 * 855 * enc_rate + 1000000) \div 2000000
    ELSE (2 * 1710 * enc_rate + 1000000) \div 2000000

\* offset in the output of the k-th pulse, given the sample count of each pulse
RECURSIVE PulseOffset(_, _)
PulseOffset(counts, k) ==
    IF k = 1 THEN 0 ELSE PulseOffset(counts, k - 1) + counts[k - 1]

\* the output is, bit after bit, one square wave of count0 samples for a
\* 0 bit and of count1 samples for a 1 bit
EmitsPerBit(count0, count1) ==
    LET bits   == PayloadBits(enc_data)
        n      == Len(bits)
        counts == [k \in 1..n |-> IF bits[k] = 0 THEN count0 ELSE count1]
    IN  /\ Len(enc_out) = IF n = 0 THEN 0 ELSE PulseOffset(counts, n) + counts[n]
        /\ \A k \in 1..n :
              LET from == PulseOffset(counts, k)
                  freq == IF bits[k] = 0 THEN 1500 ELSE 3000
              IN  SubSeq(enc_out, from + 1, from + counts[k])
                      = square_wave(freq, counts[k], enc_rate)

\* C7 (as stated): every bit is emitted as round(duration_us / 1_000_000 *
\* sample_rate) samples (38 for a 0 bit and 75 for a 1 bit at 44100 Hz), and
\* the output length is the sum of these counts.
C7_RoundedSampleCounts ==
    pc = "encoded" =>
        /\ EmitsPerBit(RoundedCount(0), RoundedCount(1))
        /\ enc_rate = 44100 => RoundedCount(0) = 38 /\ RoundedCount(1) = 75

\* C7 (amended): every bit is emitted as duration_us / 1_000_000 * sample_rate
\* samples truncated toward zero, that is floor(duration_us * sample_rate /
\* 1_000_000) (37 for a 0 bit and 75 for a 1 bit at 44100 Hz), and the output
\* length is the sum of these counts.
C7_TruncatedSampleCounts ==
    pc = "encoded" =>
        /\ EmitsPerBit(TruncatedCount(0), TruncatedCount(1))
        /\ enc_rate = 44100 => TruncatedCount(0) = 37 /\ TruncatedCount(1) = 75

\* a payload with 0 bits and 1 bits has been encoded at a rate at which
\* rounding and truncating differ
C7_Witness ==
    /\ pc = "encoded"
    /\ enc_rate = 44100
    /\ enc_data = <<170, 1>>
    /\ Len(enc_out) = 11 * 37 + 5 * 75

---------------------------------------------------------------------------
(* Properties of header decoding and of playback, checked under Spec *)

\* 13 00 | 00 | 00 'T' 'E' 'S' 'T' 00 x 6 | 05 00 | 00 0A | 00 00 | AA
ScenarioBytes ==
    <<19, 0, 0, 0, 84, 69, 83, 84, 0, 0, 0, 0, 0, 0, 5, 0, 0, 10, 0, 0, 170>>

\* the container starts with the scenario's header block and its block has
\* been parsed
ScenarioParsed ==
    /\ Len(input) >= Len(ScenarioBytes)
    /\ SubSeq(input, 1, Len(ScenarioBytes)) = ScenarioBytes
    /\ Len(blocks) >= 1

ScenarioHeader(autostart) ==
    [header_type |-> "Program",
     filename    |-> <<84, 69, 83, 84, 0, 0, 0, 0, 0, 0>>,
     len_data    |-> 5,
     params      |-> Some([tag |-> "Program",
                           autostart_line |-> autostart,
                           len_program |-> 0]),
     checksum    |-> 170]

\* C8 (as stated): the scenario's header block decodes to kind Program,
\* filename "TEST" and six zero bytes, declared_data_length 5,
\* autostart_line 10 and program_length 0.
C8_ScenarioAutostart10 ==
    ScenarioParsed => blocks[1].header = Some(ScenarioHeader(10))

\* C8 (amended): the scenario's header block decodes to kind Program, filename
\* "TEST" and six zero bytes, declared_data_length 5, autostart_line 2560
\* (0x0A00, the little-endian value of the bytes 00 0A) and program_length 0.
C8_ScenarioAutostart2560 ==
    ScenarioParsed => blocks[1].header = Some(ScenarioHeader(2560))

C8_Witness ==
    /\ ScenarioParsed
    /\ blocks[1].header # None
    /\ blocks[1].header[1].params[1].autostart_line = 2560

\* the block at offset p is a NumArray or CharArray header block whose 19
\* body bytes are all present
ArrayHeaderAt(p) ==
    /\ Remaining(input, p) >= 21
    /\ DeclaredLengthAt(p) = 19
    /\ FlagByteAt(p) = 0
    /\ read_u8(input, p + 3) \in {1, 2}

\* C9: decoding a NumArray or CharArray header never fails because of the
\* value of its two trailing reserved bytes, and a decoded header carries
\* those bytes as read.
C9_ReservedBytesNeverFail ==
    [][(pc = "reading" /\ ArrayHeaderAt(pos)) =>
          /\ ~(pc' = "failed" /\ err' = "InvalidData")
          /\ BlockParsed =>
                LastBlock(blocks').header[1].params[1].reserved1
                    = <<read_u8(input, pos + 18), read_u8(input, pos + 19)>>]_vars

\* the payload a block carries: the companion payload of a Header block or
\* the raw payload of a Data block
IsPayload(o) == o # None /\ o[1] # <<>>

PayloadsOf(bs) ==
    SelectSeq([i \in DOMAIN bs |->
                  IF bs[i].data # None THEN bs[i].data
                  ELSE bs[i].headerless_data],
              IsPayload)

IsPulseTrain(t) == t # <<>>

\* C10: when main has finished, the payload of every block that carries one
\* (at least one byte of companion payload or of raw payload) has been encoded
\* exactly once, and the pulse trains were played in the order of the blocks.
C10_EveryPayloadPlayedInOrder ==
    pc = "done" =>
        LET payloads == PayloadsOf(blocks)
        IN  SelectSeq(played, IsPulseTrain)
                = [i \in DOMAIN payloads |->
                      convert_bits_to_pulses(payloads[i][1], 44100)]

---------------------------------------------------------------------------
(* Properties of main()'s two loops *)

\* C11: a parse failure aborts the whole decode: once Block::from_bytes has
\* returned an error (UnexpectedEof or InvalidData), main has failed, and no
\* pulse train has been encoded or played for any block of the container,
\* the blocks parsed before the failing one included.
C11_FailureAbortsDecode ==
    err # "none" =>
        /\ pc = "failed"
        /\ played = <<>>
        /\ next_block = 1

\* the run failed on a later block after a Header block with a companion
\* payload had been parsed, and nothing was played
C11_Witness ==
    /\ pc = "failed"
    /\ err = "InvalidData"
    /\ Len(blocks) >= 1
    /\ blocks[1].data # None
    /\ blocks[1].data[1] # <<>>
    /\ played = <<>>

\* C12: the block-reading loop terminates on every finite input: each call of
\* Block::from_bytes either ends the loop (it returns an error; a panic ends
\* the loop as well) or returns a block with the reader advanced by at least
\* 3 bytes and not past the end of the input.  The reader never passes the
\* end (so the loop condition or the loop body can always run), n blocks
\* pushed have taken at least 3 * n bytes, and the loop runs at most
\* ceil(Len(input) / 3) iterations before the reader is empty.
C12_ReadingLoopTerminates ==
    /\ (pc = "reading" /\ pos < Len(input)) =>
          LET r == Block_from_bytes(input, pos, overflow_checks)
          IN  \/ r.status \in {"UnexpectedEof", "InvalidData", "Panic"}
              \/ /\ r.status = "Ok"
                 /\ r.pos >= pos + 3
                 /\ r.pos <= Len(input)
    /\ 3 * Len(blocks) <= pos
    /\ pos <= Len(input)
    /\ pc \in {"failed", "panicked"} => 3 * (Len(blocks) + 1) <= Len(input) + 2

\* the loop ran twice on blocks of 3 bytes each and ended with the reader empty
C12_Witness ==
    /\ pc = "playing"
    /\ Len(blocks) = 2
    /\ pos = Len(input)
    /\ pos = 3 * Len(blocks)

===========================================================================
